---- MODULE Spec2Model ----
(***************************************************************************)
(* Review workflow of the FBO application portal: the application table,   *)
(* the admin table and the request handlers that write an application's    *)
(* status and certificate fields.                                          *)
(*                                                                         *)
(* update_application_status is modelled in the steps at which it talks to *)
(* the database (load and validate, first commit, notification commit and  *)
(* response), so that two requests can interleave; upload_document is      *)
(* modelled in the steps before and after its commit; the other handlers   *)
(* load and commit in one step, and appear with the guard under which they *)
(* commit.  The rows a request adds to the comment and notification tables *)
(* and the events it emits are kept in the request that adds them.         *)
(***************************************************************************)
EXTENDS Integers, Sequences, FiniteSets, TLC

\* ---------------------------------------------------------------- bounds
MaxApps == 1        \* applications that are ever created
MaxYears == 1       \* calendar-year changes that are observed
MaxReq == 2         \* update_application_status requests in flight at once
MaxIssued == 2      \* applications that are created where certificates are compared
MaxAdmins == 6      \* admin rows that are ever created

\* ------------------------------------------------------------ enumerations
ApplicationStatus ==
    { "PENDING", "REVIEWING_AGAIN", "FBO_REVIEW", "TRANSFER_TO_DM", "DM_REVIEW",
      "TRANSFER_TO_HOD", "HOD_REVIEW", "TRANSFER_TO_SG", "SG_REVIEW",
      "TRANSFER_TO_CEO", "CEO_REVIEW", "APPROVED", "REJECTED",
      "CERTIFICATE_ISSUED" }

AdminRole == { "FBO_OFFICER", "DIVISION_MANAGER", "HOD", "SECRETARY_GENERAL", "CEO" }

\* The status literals a request body may carry: every member of the
\* enumeration and one literal that ApplicationStatus(new_status) rejects.
\* The empty literal stands for a body without a status.
StatusLiterals == ApplicationStatus \cup { "DRAFT", "" }

Null == << >>       \* a NULL certificate_number
NoAdmin == 0        \* a NULL processed_by_id (ids start at 1)
NoTime == 0         \* a NULL timestamp
NoRow == 0          \* a NULL foreign key, an id that is not given
BaseYear == 2025    \* the calendar year in which the system starts

\* -------------------------------------------------------- transition table
FboOfficerTransitions ==
    [ PENDING |-> { "FBO_REVIEW", "REVIEWING_AGAIN" },
      FBO_REVIEW |-> { "TRANSFER_TO_DM", "REVIEWING_AGAIN" },
      REVIEWING_AGAIN |-> { "FBO_REVIEW" } ]

DivisionManagerTransitions ==
    [ TRANSFER_TO_DM |-> { "DM_REVIEW" },
      DM_REVIEW |-> { "TRANSFER_TO_HOD", "REVIEWING_AGAIN" } ]

HodTransitions ==
    [ TRANSFER_TO_HOD |-> { "HOD_REVIEW" },
      HOD_REVIEW |-> { "TRANSFER_TO_SG", "REVIEWING_AGAIN" } ]

SecretaryGeneralTransitions ==
    [ TRANSFER_TO_SG |-> { "SG_REVIEW" },
      SG_REVIEW |-> { "TRANSFER_TO_CEO", "REJECTED" } ]

CeoTransitions ==
    [ TRANSFER_TO_CEO |-> { "CEO_REVIEW" },
      CEO_REVIEW |-> { "APPROVED", "REJECTED" } ]

\* mutant: an FBO officer may hand an application to the CEO
valid_transitions_SkipToCeo ==
    [ FBO_OFFICER |->
          [ FboOfficerTransitions EXCEPT
              !.FBO_REVIEW = @ \cup { "TRANSFER_TO_CEO" } ],
      DIVISION_MANAGER |-> DivisionManagerTransitions,
      HOD |-> HodTransitions,
      SECRETARY_GENERAL |-> SecretaryGeneralTransitions,
      CEO |-> CeoTransitions ]

\* mutant: a CEO may reopen a rejected application
valid_transitions_ReopenRejected ==
    [ FBO_OFFICER |-> FboOfficerTransitions,
      DIVISION_MANAGER |-> DivisionManagerTransitions,
      HOD |-> HodTransitions,
      SECRETARY_GENERAL |-> SecretaryGeneralTransitions,
      CEO |-> ("REJECTED" :> { "CEO_REVIEW" }) @@ CeoTransitions ]

\* mutant: the division manager's review lists its own status as a target
valid_transitions_SelfLoop ==
    [ FBO_OFFICER |-> FboOfficerTransitions,
      DIVISION_MANAGER |->
          ("DM_REVIEW" :> { "DM_REVIEW", "TRANSFER_TO_HOD", "REVIEWING_AGAIN" })
              @@ DivisionManagerTransitions,
      HOD |-> HodTransitions,
      SECRETARY_GENERAL |-> SecretaryGeneralTransitions,
      CEO |-> CeoTransitions ]

\* mutant: the CEO's review lists REVIEWING_AGAIN as a target
valid_transitions_CeoSendsBack ==
    [ FBO_OFFICER |-> FboOfficerTransitions,
      DIVISION_MANAGER |-> DivisionManagerTransitions,
      HOD |-> HodTransitions,
      SECRETARY_GENERAL |-> SecretaryGeneralTransitions,
      CEO |-> ("CEO_REVIEW" :> { "APPROVED", "REJECTED", "REVIEWING_AGAIN" })
                  @@ CeoTransitions ]

valid_transitions ==
    [ FBO_OFFICER |-> FboOfficerTransitions,
      DIVISION_MANAGER |-> DivisionManagerTransitions,
      HOD |-> HodTransitions,
      SECRETARY_GENERAL |-> SecretaryGeneralTransitions,
      CEO |-> CeoTransitions ]

next_role_map ==
    [ TRANSFER_TO_DM |-> "DIVISION_MANAGER",
      TRANSFER_TO_HOD |-> "HOD",
      TRANSFER_TO_SG |-> "SECRETARY_GENERAL",
      TRANSFER_TO_CEO |-> "CEO" ]

\* ---------------------------------------------------- certificate number
DigitChar(d) == << "0", "1", "2", "3", "4", "5", "6", "7", "8", "9" >>[d + 1]

RECURSIVE Decimal(_)
\* str(n) for n >= 0, as a sequence of characters
Decimal(n) == IF n < 10 THEN << DigitChar(n) >>
              ELSE Append(Decimal(n \div 10), DigitChar(n % 10))

RECURSIVE ZeroPad(_, _)
\* the d of a format spec {:0wd}: pad on the left to at least w characters
ZeroPad(s, w) == IF Len(s) >= w THEN s ELSE ZeroPad(<< "0" >> \o s, w)

\* mutant: the number is built from the year alone
CertificateNumber_YearOnly(y, id) ==
    << "R", "G", "B", "-" >> \o Decimal(y) \o << "-" >> \o ZeroPad(Decimal(0), 6)

\* mutant: the id is printed without its zero padding
CertificateNumber_Unpadded(y, id) ==
    << "R", "G", "B", "-" >> \o Decimal(y) \o << "-" >> \o Decimal(id)

CertificateNumber(y, id) ==
    << "R", "G", "B", "-" >> \o Decimal(y) \o << "-" >> \o ZeroPad(Decimal(id), 6)

\* ------------------------------------------------------------------ state
VARIABLES
    applications,   \* organization_applications: row id |-> row (a sequence, ids 1..Len)
    admins,         \* admins: row id |-> [role, enabled]
    year,           \* the clock datetime.now() and datetime.utcnow() read, in
                    \* calendar years
    req,            \* update_application_status requests: slot |-> request
    applicant_req,  \* the applicant's request (create_application,
                    \* update_application or upload_document) in flight
    application_comments,   \* application_comments: the rows, in insertion order
    notifications,  \* notifications: row id |-> row, for the rows that exist
    notification_id,        \* the last value of the sequence notifications.id
    user_req,       \* the request of one of the other handlers in flight
    stages          \* application id |-> how many statuses of ReviewChain its
                    \* committed statuses have gone through, in order

\* the tables and requests that only some of the specifications follow
tables == << application_comments, notifications, notification_id, user_req,
             stages >>

vars == << applications, admins, year, req, applicant_req,
           application_comments, notifications, notification_id, user_req,
           stages >>

Slots == 1 .. MaxReq

\* Applicant ids come from their own sequence: applicant 1 shares its number
\* with an admin row, applicant 6 does not.
Applicants == { 1, 6 }

ApplicationIds == 1 .. Len(applications)

\* application ids a request may name: every row and one id that has no row
RequestedIds == 1 .. (MaxApps + 1)

\* what a request that has not answered yet carries as response
NoBody == [ status |-> "", certificate_number |-> Null ]
NoEvent == [ old_status |-> "", new_status |-> "" ]

\* comment: the request's comment; comments: the ApplicationComment rows the
\* request has inserted; notification, applicants: the status named in the
\* notification for the owner and the applicants it is addressed to;
\* next_admins: the admins a notification is addressed to.
IdleRequest ==
    [ pc |-> "idle", admin_id |-> NoAdmin, role |-> "", application_id |-> 0,
      new_status |-> "", comment |-> << >>,
      old_status |-> "", last_modified |-> NoTime,
      certificate_number |-> Null, certificate_issued_at |-> NoTime,
      comments |-> << >>,
      code |-> 0, error |-> "", body |-> NoBody,
      notification |-> "", applicants |-> { }, next_admins |-> { },
      event |-> NoEvent ]

\* event: the name of the socket event the handler has emitted
IdleApplicantRequest ==
    [ pc |-> "idle", handler |-> "", application_id |-> 0, event |-> "",
      code |-> 0 ]

\* type, user_id: the identity of the token; id: the row the URL names;
\* admin_id: the admin the body names; can_edit: the canEdit of the response;
\* listed: the applications of the response, each with its canEdit
IdleUserRequest ==
    [ pc |-> "idle", handler |-> "", type |-> "", user_id |-> 0, id |-> 0,
      admin_id |-> 0, code |-> 0, can_edit |-> FALSE, listed |-> { } ]

\* The default CEO (row 1, created before the first request) and one admin of
\* each other role, created through create_user; no application yet.
Init ==
    /\ applications = << >>
    /\ admins = [ a \in 1 .. 5 |->
                    [ role |-> << "CEO", "SECRETARY_GENERAL", "HOD",
                                  "DIVISION_MANAGER", "FBO_OFFICER" >>[a],
                      enabled |-> TRUE ] ]
    /\ year = BaseYear
    /\ req = [ s \in Slots |-> IdleRequest ]
    /\ applicant_req = IdleApplicantRequest
    /\ application_comments = << >>
    /\ notifications = << >>
    /\ notification_id = 0
    /\ user_req = IdleUserRequest
    /\ stages = << >>

\* no request is between its first step and its response
Quiet == /\ \A s \in Slots : req[s].pc = "idle"
         /\ applicant_req.pc = "idle"

\* ------------------------------------------------------------ the calendar
NewYear ==
    /\ year < BaseYear + MaxYears
    /\ year' = year + 1
    /\ UNCHANGED << applications, admins, req, applicant_req >>

\* --------------------------------------------------------- applicant side
\* The application is committed (line 62), then the notifications for the
\* FBO officers (line 76); new_application is emitted after both.
create_application(applicant) ==
    /\ applicant_req.pc = "idle"
    /\ applications' = Append(applications,
          [ applicant_id |-> applicant, status |-> "PENDING",
            processed_by_id |-> NoAdmin, last_modified |-> year,
            certificate_number |-> Null, certificate_issued_at |-> NoTime,
            qr_code_data |-> Null ])
    /\ applicant_req' = [ pc |-> "done", handler |-> "create_application",
                          application_id |-> Len(applications) + 1,
                          event |-> "new_application", code |-> 201 ]
    /\ UNCHANGED << admins, year, req >>

\* The audit comment update_application adds names the applicant's id in
\* performed_by_id, a foreign key into admins: the commit goes through only
\* when an admin row carries that id, and is rolled back otherwise.
\* application_updated is emitted after the commit (line 174).
update_application(applicant, id) ==
    /\ applicant_req.pc = "idle"
    /\ id \in ApplicationIds
    /\ applications[id].applicant_id = applicant
    /\ applications[id].status \in { "PENDING", "REVIEWING_AGAIN" }
    /\ applicant \in DOMAIN admins
    /\ applications' = [ applications EXCEPT ![id].status = "PENDING",
                                             ![id].last_modified = year ]
    /\ applicant_req' = [ pc |-> "done", handler |-> "update_application",
                          application_id |-> id,
                          event |-> "application_updated", code |-> 200 ]
    /\ UNCHANGED << admins, year, req >>

\* the UPDATE of a changed row, whose last_modified column has
\* onupdate=datetime.utcnow; an unchanged row is not written
Flushed(old, new) == IF new = old THEN old ELSE [ new EXCEPT !.last_modified = year ]

\* upload_document with a valid document type and file, up to the emit of
\* line 67: the status is set on the loaded row before the file is looked at,
\* and new_application is emitted before anything is committed.
upload_document(applicant, id) ==
    /\ applicant_req.pc = "idle"
    /\ id \in ApplicationIds
    /\ applications[id].applicant_id = applicant
    /\ applicant_req' = [ pc |-> "commit", handler |-> "upload_document",
                          application_id |-> id,
                          event |-> "new_application", code |-> 0 ]
    /\ UNCHANGED << applications, admins, year, req >>

\* the commit of line 103 writes the status with the document
upload_document_commit ==
    /\ applicant_req.pc = "commit"
    /\ applications' = [ applications EXCEPT
          ![applicant_req.application_id] =
              Flushed(@, [ @ EXCEPT !.status = "PENDING" ]) ]
    /\ applicant_req' = [ applicant_req EXCEPT !.pc = "done", !.code = 201 ]
    /\ UNCHANGED << admins, year, req >>

\* the commit raises: the handler rolls back and answers 500
upload_document_fails ==
    /\ applicant_req.pc = "commit"
    /\ applicant_req' = [ applicant_req EXCEPT !.pc = "done", !.code = 500 ]
    /\ UNCHANGED << applications, admins, year, req >>

\* the response has been delivered
applicant_return ==
    /\ applicant_req.pc = "done"
    /\ applicant_req' = IdleApplicantRequest
    /\ UNCHANGED << applications, admins, year, req >>

\* generate_certificate has no authentication decorator: any caller.
generate_certificate(id) ==
    /\ id \in ApplicationIds
    /\ applications[id].status \in { "APPROVED", "CERTIFICATE_ISSUED" }
    /\ applications' = [ applications EXCEPT
          ![id] = Flushed(@,
              [ @ EXCEPT
                  \* the QR code encodes the certificate number
                  !.qr_code_data = applications[id].certificate_number,
                  !.status = "CERTIFICATE_ISSUED",
                  !.certificate_issued_at = IF @ = NoTime THEN year ELSE @ ]) ]
    /\ UNCHANGED << admins, year, req, applicant_req >>

\* ------------------------------------------------------------ admin users
\* create_user, called by an enabled CEO or SECRETARY_GENERAL with a complete
\* body: a SECRETARY_GENERAL creates neither CEO nor SECRETARY_GENERAL accounts.
create_user(current, role, enabled) ==
    /\ current \in DOMAIN admins
    /\ admins[current].enabled
    /\ admins[current].role \in { "CEO", "SECRETARY_GENERAL" }
    /\ admins[current].role = "SECRETARY_GENERAL"
           => role \notin { "CEO", "SECRETARY_GENERAL" }
    /\ admins' = Append(admins, [ role |-> role, enabled |-> enabled ])
    /\ UNCHANGED << applications, year, req, applicant_req >>

\* update_user with a body that carries the enabled key alone: a
\* SECRETARY_GENERAL edits neither CEO nor SECRETARY_GENERAL accounts.
update_user(current, user_id, enabled) ==
    /\ current \in DOMAIN admins
    /\ admins[current].enabled
    /\ admins[current].role \in { "CEO", "SECRETARY_GENERAL" }
    /\ user_id \in DOMAIN admins
    /\ admins[current].role = "SECRETARY_GENERAL"
           => admins[user_id].role \notin { "CEO", "SECRETARY_GENERAL" }
    /\ admins' = [ admins EXCEPT ![user_id].enabled = enabled ]
    /\ UNCHANGED << applications, year, req, applicant_req >>

\* ------------------------------------------------- update_application_status
\* mutant: a status the role has no entry for is treated as an empty target list
ValidateTransition_NoStateCheck(role, status, new_status) ==
    IF new_status \notin ApplicationStatus THEN "Invalid status"
    ELSE IF role \notin DOMAIN valid_transitions THEN "No permission to update status"
    ELSE IF status \notin DOMAIN valid_transitions[role]
         THEN "Invalid status transition"
    ELSE IF new_status \notin valid_transitions[role][status]
         THEN "Invalid status transition"
    ELSE "ok"

\* mutant: the target is not looked up in the list of the role and status
ValidateTransition_AnyTarget(role, status, new_status) ==
    IF new_status \notin ApplicationStatus THEN "Invalid status"
    ELSE IF role \notin DOMAIN valid_transitions THEN "No permission to update status"
    ELSE IF status \notin DOMAIN valid_transitions[role]
         THEN "Cannot update application in status"
    ELSE "ok"

\* The checks of lines 293-306 in their order, on the role and the status the
\* request loaded: "ok" or the denial the handler answers.
ValidateTransition(role, status, new_status) ==
    IF new_status \notin ApplicationStatus THEN "Invalid status"
    ELSE IF role \notin DOMAIN valid_transitions THEN "No permission to update status"
    ELSE IF status \notin DOMAIN valid_transitions[role]
         THEN "Cannot update application in status"
    ELSE IF new_status \notin valid_transitions[role][status]
         THEN "Invalid status transition"
    ELSE "ok"

\* the HTTP status the handler returns with each answer
StatusCode(error) ==
    CASE error = "ok" -> 200
      [] error = "Admin not found or disabled" -> 403
      [] error = "No permission to update status" -> 403
      [] error = "Failed to update application status: 404 Not Found" -> 500
      [] error = "Failed to update application status" -> 500
      [] OTHER -> 400

\* the comments a request body may carry: none, a blank one, and one with text
Comments == { << >>, << " " >>, << " ", "o", "k" >> }

RECURSIVE Strip(_)
\* str.strip(): the string without its leading and trailing whitespace
Strip(c) ==
    IF c = << >> THEN c
    ELSE IF Head(c) = " " THEN Strip(Tail(c))
    ELSE IF c[Len(c)] = " " THEN Strip(SubSeq(c, 1, Len(c) - 1))
    ELSE c

Denied(s, admin, id, new_status, error) ==
    req' = [ req EXCEPT ![s] =
               [ IdleRequest EXCEPT
                   !.pc = "done", !.admin_id = admin, !.application_id = id,
                   !.role = IF admin \in DOMAIN admins THEN admins[admin].role ELSE "",
                   !.new_status = new_status,
                   !.old_status = IF id \in ApplicationIds
                                  THEN applications[id].status ELSE "",
                   !.code = StatusCode(error), !.error = error ] ]

\* admin_required, the loads of lines 265-266, the validation, and the
\* changes the handler makes to the loaded row before it commits.  The
\* NotFound that get_or_404 raises is caught by the handler's own
\* "except Exception" and answered 500.
StatusBegin(s, admin, id, new_status, comment) ==
    /\ req[s].pc = "idle"
    /\ UNCHANGED << applications, admins, year, applicant_req >>
    /\ IF admin \notin DOMAIN admins \/ ~admins[admin].enabled
       THEN Denied(s, admin, id, new_status, "Admin not found or disabled")
       ELSE IF new_status = ""
       THEN Denied(s, admin, id, new_status, "Application ID and status required")
       ELSE IF id \notin ApplicationIds
       THEN Denied(s, admin, id, new_status,
                   "Failed to update application status: 404 Not Found")
       ELSE LET error == ValidateTransition(admins[admin].role,
                                            applications[id].status, new_status)
            IN IF error # "ok"
               THEN Denied(s, admin, id, new_status, error)
               ELSE req' = [ req EXCEPT ![s] =
                      [ IdleRequest EXCEPT
                          !.pc = "flush", !.admin_id = admin, !.application_id = id,
                          !.role = admins[admin].role,
                          !.new_status = new_status,
                          !.comment = comment,
                          !.old_status = applications[id].status,
                          !.last_modified = year,
                          !.certificate_number =
                              IF new_status = "APPROVED"
                              THEN CertificateNumber(year, id) ELSE Null,
                          !.certificate_issued_at =
                              IF new_status = "APPROVED" THEN year ELSE NoTime ] ]

\* mutant: the status is committed before the other fields are set
CommittedRow_StatusOnly(row, r) ==
    [ row EXCEPT !.status = IF r.new_status = "APPROVED"
                            THEN "CERTIFICATE_ISSUED" ELSE r.new_status ]

\* the row the first commit (line 329) writes
CommittedRow(row, r) ==
    IF r.new_status = "APPROVED"
    THEN [ row EXCEPT !.status = "CERTIFICATE_ISSUED",
                      !.processed_by_id = r.admin_id,
                      !.last_modified = r.last_modified,
                      !.certificate_number = r.certificate_number,
                      !.certificate_issued_at = r.certificate_issued_at ]
    ELSE [ row EXCEPT !.status = r.new_status,
                      !.processed_by_id = r.admin_id,
                      !.last_modified = r.last_modified ]

\* the ApplicationComment rows the first commit inserts (lines 315-321)
CommittedComments(r) ==
    IF Strip(r.comment) # << >>
    THEN << [ content |-> Strip(r.comment), performed_by_id |-> r.admin_id,
              application_id |-> r.application_id ] >>
    ELSE << >>

\* certificate_number is declared unique=True: the UPDATE that would give row
\* id a number another row holds raises an IntegrityError
UniqueViolated(id, number) ==
    /\ number # Null
    /\ \E other \in ApplicationIds \ { id } :
           applications[other].certificate_number = number

\* processed_by_id and performed_by_id are foreign keys into admins
StatusCommit(s) ==
    /\ req[s].pc = "flush"
    /\ ~UniqueViolated(req[s].application_id, req[s].certificate_number)
    /\ req[s].admin_id \in DOMAIN admins
    /\ applications' = [ applications EXCEPT ![req[s].application_id] =
                           CommittedRow(@, req[s]) ]
    /\ req' = [ req EXCEPT ![s].pc = "notify",
                           ![s].comments = CommittedComments(req[s]) ]
    /\ UNCHANGED << admins, year, applicant_req >>

\* the first commit raises: the handler rolls back (lines 376-378) and
\* answers 500; nothing of the transition is written
StatusCommitFails(s) ==
    /\ req[s].pc = "flush"
    /\ req' = [ req EXCEPT
                  ![s].pc = "done",
                  ![s].error = "Failed to update application status",
                  ![s].code = StatusCode("Failed to update application status") ]
    /\ UNCHANGED << applications, admins, year, applicant_req >>

\* the status the notification for the owner and the status_update event name
ReportedStatus(r) == r.new_status

\* mutant: the query for the admins of the next role leaves out enabled=True
NextAdmins_Disabled(new_status) ==
    IF new_status \in DOMAIN next_role_map
    THEN { a \in DOMAIN admins : admins[a].role = next_role_map[new_status] }
    ELSE { }

\* the admins the notification of lines 342-359 is addressed to
NextAdmins(new_status) ==
    IF new_status \in DOMAIN next_role_map
    THEN { a \in DOMAIN admins :
             /\ admins[a].role = next_role_map[new_status]
             /\ admins[a].enabled }
    ELSE { }

\* Lines 331-374: the notifications and their commit, the event, and the
\* response, whose application.to_dict() reads the row as it is by then (the
\* session expires its objects at each commit).
StatusNotify(s) ==
    /\ req[s].pc = "notify"
    /\ LET r == req[s]
           row == applications[r.application_id]
       IN req' = [ req EXCEPT ![s] =
            [ r EXCEPT
                !.pc = "done", !.code = 200, !.error = "ok",
                !.body = [ status |-> row.status,
                           certificate_number |-> row.certificate_number ],
                !.notification = ReportedStatus(r),
                !.applicants = { row.applicant_id },
                !.next_admins = NextAdmins(r.new_status),
                !.event = [ old_status |-> r.old_status,
                            new_status |-> ReportedStatus(r) ] ] ]
    /\ UNCHANGED << applications, admins, year, applicant_req >>

\* After the first commit the notifications' commit (line 361) or the emit
\* (line 364) raises: the handler's except clause rolls back what is not
\* committed and answers 500.  persisted: the notifications were committed,
\* it is the emit that raised.
StatusNotifyFails(s, persisted) ==
    /\ req[s].pc = "notify"
    /\ LET r == req[s]
           row == applications[r.application_id]
       IN req' = [ req EXCEPT ![s] =
            [ r EXCEPT
                !.pc = "done",
                !.error = "Failed to update application status",
                !.code = StatusCode("Failed to update application status"),
                !.notification = IF persisted THEN ReportedStatus(r) ELSE "",
                !.applicants = IF persisted THEN { row.applicant_id } ELSE { },
                !.next_admins =
                    IF persisted THEN NextAdmins(r.new_status) ELSE { } ] ]
    /\ UNCHANGED << applications, admins, year, applicant_req >>

\* the response has been delivered; the worker takes the next request
StatusReturn(s) ==
    /\ req[s].pc = "done"
    /\ req' = [ req EXCEPT ![s] = IdleRequest ]
    /\ UNCHANGED << applications, admins, year, applicant_req >>

\* ------------------------------------------------------- the status history
\* the statuses of the escalation chain, in the order the table of
\* update_application_status leads through them
ReviewChain ==
    << "FBO_REVIEW", "TRANSFER_TO_DM", "DM_REVIEW", "TRANSFER_TO_HOD",
       "HOD_REVIEW", "TRANSFER_TO_SG", "SG_REVIEW", "TRANSFER_TO_CEO",
       "CEO_REVIEW" >>

\* how far through ReviewChain the committed statuses of an application have
\* gone once status is committed after they had gone through the first n
Advanced(n, status) ==
    IF n < Len(ReviewChain) /\ ReviewChain[n + 1] = status THEN n + 1 ELSE n

\* stages after a step that has committed the rows of applications'
Recorded ==
    [ id \in DOMAIN applications' |->
        IF id \in DOMAIN stages
        THEN Advanced(stages[id], applications'[id].status) ELSE 0 ]

\* ------------------------------------------------------------ other handlers
\* the response has been delivered
user_return ==
    /\ user_req.pc = "done"
    /\ user_req' = IdleUserRequest
    /\ UNCHANGED << applications, admins, year, req, applicant_req,
                    application_comments, notifications, notification_id, stages >>

\* the INSERT of rows into notifications, each taking the next id
InsertNotifications(rows) ==
    /\ notification_id' = notification_id + Len(rows)
    /\ notifications' =
          [ id \in DOMAIN notifications
                     \cup (notification_id + 1 .. notification_id + Len(rows)) |->
              IF id \in DOMAIN notifications THEN notifications[id]
              ELSE rows[id - notification_id] ]

\* admin_required(roles=...): the answer of the decorator, 0 when it lets the
\* request through
AdminRequired(current, roles) ==
    IF current \notin DOMAIN admins \/ ~admins[current].enabled THEN 403
    ELSE IF admins[current].role \notin roles THEN 403
    ELSE 0

\* the literal of assign_application: the attributes of ApplicationStatus it
\* names as keys, and the roles an application in that status is assigned to
valid_assignments ==
    [ PENDING |-> { "FBO_OFFICER" }, DRAFT |-> { "DIVISION_MANAGER" },
      DM_REVIEW |-> { "HOD" }, HOD_REVIEW |-> { "SECRETARY_GENERAL" },
      SG_REVIEW |-> { "CEO" } ]

\* the answer of assign_application: get_or_404 and the attribute of
\* ApplicationStatus that does not exist raise inside the handler's try, whose
\* except clause rolls back and answers 500
AssignCode(current, application_id, admin_id) ==
    IF AdminRequired(current, { "DIVISION_MANAGER", "HOD",
                                "SECRETARY_GENERAL", "CEO" }) # 0
    THEN 403
    ELSE IF application_id \notin ApplicationIds THEN 500
    ELSE IF admin_id = NoRow THEN 400
    ELSE IF admin_id \notin DOMAIN admins THEN 500
    ELSE IF \E key \in DOMAIN valid_assignments : key \notin ApplicationStatus
    THEN 500
    ELSE IF /\ applications[application_id].status \in DOMAIN valid_assignments
            /\ admins[admin_id].role
                  \notin valid_assignments[applications[application_id].status]
    THEN 400
    ELSE 200

assign_application(current, application_id, admin_id) ==
    /\ user_req.pc = "idle"
    /\ LET code == AssignCode(current, application_id, admin_id)
       IN /\ user_req' = [ IdleUserRequest EXCEPT
                             !.pc = "done", !.handler = "assign_application",
                             !.type = "admin", !.user_id = current,
                             !.id = application_id, !.admin_id = admin_id,
                             !.code = code ]
          /\ IF code = 200
             THEN /\ applications' = [ applications EXCEPT
                         ![application_id].processed_by_id = admin_id,
                         ![application_id].last_modified = year ]
                  /\ InsertNotifications(
                         << [ applicant_id |-> NoRow, admin_id |-> admin_id,
                              application_id |-> application_id,
                              is_read |-> FALSE ] >>)
             ELSE UNCHANGED << applications, notifications, notification_id >>
    /\ UNCHANGED << admins, year, req, applicant_req, application_comments,
                    stages >>

\* the role names a body of update_user may carry: the values of AdminRole
\* and one that is none of them
RoleLiterals == AdminRole \cup { "DIRECTOR" }

\* the answer of update_user to a body that carries the role key alone
UpdateRoleCode(current, user_id, role) ==
    IF AdminRequired(current, { "CEO", "SECRETARY_GENERAL" }) # 0 THEN 403
    ELSE IF user_id \notin DOMAIN admins THEN 500
    ELSE IF /\ admins[current].role = "SECRETARY_GENERAL"
            /\ admins[user_id].role \in { "CEO", "SECRETARY_GENERAL" }
    THEN 403
    ELSE IF role \notin AdminRole THEN 400
    ELSE IF /\ admins[current].role = "SECRETARY_GENERAL"
            /\ role \in { "CEO", "SECRETARY_GENERAL" }
    THEN 403
    ELSE 200

\* update_user with a body that carries the role key alone, and its response
update_user_role(current, user_id, role) ==
    /\ user_req.pc = "idle"
    /\ LET code == UpdateRoleCode(current, user_id, role)
       IN /\ user_req' = [ IdleUserRequest EXCEPT
                             !.pc = "done", !.handler = "update_user",
                             !.type = "admin", !.user_id = current,
                             !.id = user_id, !.code = code ]
          /\ admins' = IF code = 200
                       THEN [ admins EXCEPT ![user_id].role = role ]
                       ELSE admins
    /\ UNCHANGED << applications, year, req, applicant_req,
                    application_comments, notifications, notification_id,
                    stages >>

\* ------------------------------------------------------------ notifications
\* a new row of notifications; is_read defaults to False
Notification(applicant_id, admin_id, application_id) ==
    [ applicant_id |-> applicant_id, admin_id |-> admin_id,
      application_id |-> application_id, is_read |-> FALSE ]

RECURSIVE Ascending(_)
\* the ids of a query's rows, as a list
Ascending(ids) ==
    IF ids = { } THEN << >>
    ELSE LET least == CHOOSE a \in ids : \A b \in ids : a <= b
         IN << least >> \o Ascending(ids \ { least })

\* one notification for each admin of a list, about an application
AdminNotifications(ids, application_id) ==
    [ i \in 1 .. Len(ids) |-> Notification(NoRow, ids[i], application_id) ]

\* the enabled FBO officers create_application and update_application notify
FboOfficers ==
    { a \in DOMAIN admins : admins[a].role = "FBO_OFFICER" /\ admins[a].enabled }

\* the notifications update_application_status adds (lines 331-359): one for
\* the owner, one for each admin of the next role
StatusNotifications(r) ==
    [ i \in 1 .. Len(Ascending(r.applicants)) |->
        Notification(Ascending(r.applicants)[i], NoRow, r.application_id) ]
    \o AdminNotifications(Ascending(r.next_admins), r.application_id)

\* a key that is not in the body
Absent == -1

\* the row send_notification builds from its body: the first of the keys
\* applicant_id, admin_id, application_id that the body carries is copied,
\* the other columns stay NULL
SentNotification(data) ==
    IF data.applicant_id # Absent
    THEN Notification(data.applicant_id, NoRow, NoRow)
    ELSE IF data.admin_id # Absent
    THEN Notification(NoRow, data.admin_id, NoRow)
    ELSE Notification(NoRow, NoRow, data.application_id)

\* the three columns are foreign keys
ForeignKeysHold(row) ==
    /\ row.applicant_id \in Applicants \cup { NoRow }
    /\ row.admin_id \in DOMAIN admins \cup { NoRow }
    /\ row.application_id \in ApplicationIds \cup { NoRow }

\* the answer of send_notification to a body with title, message and type
SendCode(type, data) ==
    IF type # "admin" THEN 403
    ELSE IF /\ data.applicant_id = Absent
            /\ data.admin_id = Absent
            /\ data.application_id = Absent
    THEN 400
    ELSE IF ~ForeignKeysHold(SentNotification(data)) THEN 500
    ELSE 201

send_notification(type, user, data) ==
    /\ user_req.pc = "idle"
    /\ LET code == SendCode(type, data)
       IN /\ user_req' = [ IdleUserRequest EXCEPT
                             !.pc = "done", !.handler = "send_notification",
                             !.type = type, !.user_id = user, !.code = code ]
          /\ IF code = 201
             THEN InsertNotifications(<< SentNotification(data) >>)
             ELSE UNCHANGED << notifications, notification_id >>
    /\ UNCHANGED << applications, admins, year, req, applicant_req,
                    application_comments, stages >>

\* the rows broadcast_notification adds: one for each applicant, one for each
\* enabled admin other than the sender
BroadcastNotifications(current, recipient_type) ==
    ( IF recipient_type \in { "all", "applicants" }
      THEN [ i \in 1 .. Len(Ascending(Applicants)) |->
               Notification(Ascending(Applicants)[i], NoRow, NoRow) ]
      ELSE << >> )
    \o ( IF recipient_type \in { "all", "admins" }
         THEN AdminNotifications(
                 Ascending({ a \in DOMAIN admins \ { current } :
                               admins[a].enabled }), NoRow)
         ELSE << >> )

\* broadcast_notification of an admin, with a body that has title, message
\* and recipient_type
broadcast_notification(current, recipient_type) ==
    /\ user_req.pc = "idle"
    /\ current \in DOMAIN admins
    /\ LET code == IF admins[current].role \in { "CEO", "SECRETARY_GENERAL" }
                   THEN 200 ELSE 403
       IN /\ user_req' = [ IdleUserRequest EXCEPT
                             !.pc = "done", !.handler = "broadcast_notification",
                             !.type = "admin", !.user_id = current,
                             !.code = code ]
          /\ IF code = 200
             THEN InsertNotifications(
                     BroadcastNotifications(current, recipient_type))
             ELSE UNCHANGED << notifications, notification_id >>
    /\ UNCHANGED << applications, admins, year, req, applicant_req,
                    application_comments, stages >>

\* the ownership check of mark_notification_read and delete_notification
AccessDenied(type, user, row) ==
    \/ type = "applicant" /\ row.applicant_id # user
    \/ type = "admin" /\ row.admin_id # user

\* the answer of both handlers; the NotFound of get_or_404 is caught by the
\* handler's except clause
OwnerCode(type, user, id) ==
    IF id \notin DOMAIN notifications THEN 500
    ELSE IF AccessDenied(type, user, notifications[id]) THEN 403
    ELSE 200

mark_notification_read(type, user, id) ==
    /\ user_req.pc = "idle"
    /\ LET code == OwnerCode(type, user, id)
       IN /\ user_req' = [ IdleUserRequest EXCEPT
                             !.pc = "done", !.handler = "mark_notification_read",
                             !.type = type, !.user_id = user, !.id = id,
                             !.code = code ]
          /\ notifications' =
                IF code = 200
                THEN [ notifications EXCEPT ![id].is_read = TRUE ]
                ELSE notifications
    /\ UNCHANGED << applications, admins, year, req, applicant_req,
                    application_comments, notification_id, stages >>

mark_all_notifications_read(type, user) ==
    /\ user_req.pc = "idle"
    /\ user_req' = [ IdleUserRequest EXCEPT
          !.pc = "done", !.handler = "mark_all_notifications_read",
          !.type = type, !.user_id = user, !.code = 200 ]
    /\ notifications' =
          [ n \in DOMAIN notifications |->
              IF /\ ~notifications[n].is_read
                 /\ \/ type = "applicant" /\ notifications[n].applicant_id = user
                    \/ type = "admin" /\ notifications[n].admin_id = user
              THEN [ notifications[n] EXCEPT !.is_read = TRUE ]
              ELSE notifications[n] ]
    /\ UNCHANGED << applications, admins, year, req, applicant_req,
                    application_comments, notification_id, stages >>

delete_notification(type, user, id) ==
    /\ user_req.pc = "idle"
    /\ LET code == OwnerCode(type, user, id)
       IN /\ user_req' = [ IdleUserRequest EXCEPT
                             !.pc = "done", !.handler = "delete_notification",
                             !.type = type, !.user_id = user, !.id = id,
                             !.code = code ]
          /\ notifications' =
                IF code = 200
                THEN [ n \in DOMAIN notifications \ { id } |-> notifications[n] ]
                ELSE notifications
    /\ UNCHANGED << applications, admins, year, req, applicant_req,
                    application_comments, notification_id, stages >>

\* -------------------------------------------------------------- audit trail
\* the text of the comment update_application logs
UpdateLog == << "u", "p", "d", "a", "t", "e", "d" >>

\* the ApplicationComment update_application inserts (lines 151-157)
UpdateComment(applicant, id) ==
    [ content |-> UpdateLog, performed_by_id |-> applicant,
      application_id |-> id ]

\* the answer of add_comment
AddCommentCode(current, application_id, content) ==
    IF AdminRequired(current, AdminRole) # 0 THEN 403
    ELSE IF Strip(content) = << >> THEN 400
    ELSE IF application_id \notin ApplicationIds THEN 500
    ELSE 201

add_comment(current, application_id, content) ==
    /\ user_req.pc = "idle"
    /\ LET code == AddCommentCode(current, application_id, content)
       IN /\ user_req' = [ IdleUserRequest EXCEPT
                             !.pc = "done", !.handler = "add_comment",
                             !.type = "admin", !.user_id = current,
                             !.id = application_id, !.code = code ]
          /\ application_comments' =
                IF code = 201
                THEN Append(application_comments,
                            [ content |-> Strip(content),
                              performed_by_id |-> current,
                              application_id |-> application_id ])
                ELSE application_comments
    /\ UNCHANGED << applications, admins, year, req, applicant_req,
                    notifications, notification_id, stages >>

\* -------------------------------------------------------------- delete_user
\* the answer of delete_user up to the count of line 231, 0 when the handler
\* goes on to delete
DeleteUserCode(current, user_id) ==
    IF AdminRequired(current, { "CEO" }) # 0 THEN 403
    ELSE IF user_id \notin DOMAIN admins THEN 500
    ELSE IF user_id = current THEN 400
    ELSE IF admins[user_id].role = "CEO" THEN 400
    ELSE IF \E id \in ApplicationIds : applications[id].processed_by_id = user_id
    THEN 400
    ELSE 0

\* lines 216-235: the decorator, the loads and the checks
delete_user(current, user_id) ==
    /\ user_req.pc = "idle"
    /\ LET code == DeleteUserCode(current, user_id)
       IN user_req' = [ IdleUserRequest EXCEPT
             !.pc = IF code = 0 THEN "delete" ELSE "done",
             !.handler = "delete_user", !.type = "admin",
             !.user_id = current, !.id = user_id, !.code = code ]
    /\ UNCHANGED << applications, admins, year, req, applicant_req,
                    application_comments, notifications, notification_id,
                    stages >>

\* The flush of the deleted Admin: the rows of its relationships that do not
\* cascade (processed_applications, comments) are loaded and their foreign
\* key is set to NULL.
Orphaned(rows, column, user_id) ==
    [ i \in DOMAIN rows |->
        IF rows[i][column] = user_id
        THEN [ rows[i] EXCEPT ![column] = NoRow ] ELSE rows[i] ]

\* mutant: performed_by_id is nullable
NotNullViolated_Nullable(rows) == FALSE

\* performed_by_id is declared nullable=False: the UPDATE that sets it to
\* NULL raises an IntegrityError
NotNullViolated(rows) ==
    \E i \in DOMAIN rows : rows[i].performed_by_id = NoRow

\* mutant: the notifications of every admin are deleted
DeletedNotifications_All(user_id) ==
    { n \in DOMAIN notifications : notifications[n].admin_id # NoRow }

\* the rows the DELETE of line 238 removes
DeletedNotifications(user_id) ==
    { n \in DOMAIN notifications : notifications[n].admin_id = user_id }

\* lines 238-242: the notifications of the admin are deleted, then the admin;
\* an IntegrityError at the flush is answered 500 after the rollback
delete_user_commit ==
    /\ user_req.pc = "delete"
    /\ LET user_id == user_req.id
           comments == Orphaned(application_comments, "performed_by_id", user_id)
       IN IF NotNullViolated(comments)
          THEN /\ user_req' = [ user_req EXCEPT !.pc = "done", !.code = 500 ]
               /\ UNCHANGED << applications, admins, application_comments,
                               notifications >>
          ELSE /\ user_req' = [ user_req EXCEPT !.pc = "done", !.code = 200 ]
               /\ admins' = [ a \in DOMAIN admins \ { user_id } |-> admins[a] ]
               /\ applications' =
                     Orphaned(applications, "processed_by_id", user_id)
               /\ application_comments' = comments
               /\ notifications' =
                     [ n \in DOMAIN notifications
                                \ DeletedNotifications(user_id) |->
                         notifications[n] ]
    /\ UNCHANGED << year, req, applicant_req, notification_id, stages >>

\* ------------------------------------------------------------ the read path
\* role_permissions[role]['can_edit'], the same in get_applications and in
\* get_application
can_edit ==
    [ FBO_OFFICER |-> { "PENDING", "FBO_REVIEW", "REVIEWING_AGAIN" },
      DIVISION_MANAGER |-> { "TRANSFER_TO_DM", "DM_REVIEW" },
      HOD |-> { "TRANSFER_TO_HOD", "HOD_REVIEW" },
      SECRETARY_GENERAL |-> { "TRANSFER_TO_SG", "SG_REVIEW" },
      CEO |-> { "TRANSFER_TO_CEO", "CEO_REVIEW", "APPROVED",
                "CERTIFICATE_ISSUED" } ]

\* role_permissions[role]['can_view'] of get_application
can_view ==
    [ FBO_OFFICER |-> ApplicationStatus \ { "REJECTED" },
      DIVISION_MANAGER |->
          { "TRANSFER_TO_DM", "DM_REVIEW", "TRANSFER_TO_HOD", "HOD_REVIEW",
            "TRANSFER_TO_SG", "SG_REVIEW", "TRANSFER_TO_CEO", "CEO_REVIEW",
            "APPROVED", "CERTIFICATE_ISSUED" },
      HOD |->
          { "TRANSFER_TO_HOD", "HOD_REVIEW", "TRANSFER_TO_SG", "SG_REVIEW",
            "TRANSFER_TO_CEO", "CEO_REVIEW", "APPROVED", "CERTIFICATE_ISSUED" },
      SECRETARY_GENERAL |->
          { "TRANSFER_TO_SG", "SG_REVIEW", "TRANSFER_TO_CEO", "CEO_REVIEW",
            "APPROVED", "CERTIFICATE_ISSUED" },
      CEO |-> { "TRANSFER_TO_CEO", "CEO_REVIEW", "APPROVED",
                "CERTIFICATE_ISSUED" } ]

\* role_permissions[role]['can_view'] of get_applications, which lists the
\* rejected applications too
viewable_statuses(role) == can_view[role] \cup { "REJECTED" }

\* what an applicant may edit (lines 433 and 582)
ApplicantCanEdit(status) == status \in { "PENDING", "REVIEWING_AGAIN" }

\* get_applications: the applicant's own applications, or those in a status
\* the admin's role can view
get_applications(type, user) ==
    /\ user_req.pc = "idle"
    /\ type = "applicant" \/ user \in DOMAIN admins
    /\ user_req' = [ IdleUserRequest EXCEPT
          !.pc = "done", !.handler = "get_applications",
          !.type = type, !.user_id = user, !.code = 200,
          !.listed =
              IF type = "applicant"
              THEN { [ id |-> id,
                       canEdit |-> ApplicantCanEdit(applications[id].status) ] :
                     id \in { i \in ApplicationIds :
                                applications[i].applicant_id = user } }
              ELSE { [ id |-> id,
                       canEdit |-> applications[id].status
                                     \in can_edit[admins[user].role] ] :
                     id \in { i \in ApplicationIds :
                                applications[i].status
                                  \in viewable_statuses(admins[user].role) } } ]
    /\ UNCHANGED << applications, admins, year, req, applicant_req,
                    application_comments, notifications, notification_id,
                    stages >>

\* the answer of get_application; the NotFound of get_or_404 is caught by the
\* handler's except clause
GetApplicationCode(type, user, application_id) ==
    IF application_id \notin ApplicationIds THEN 500
    ELSE IF applications[application_id].status = "REJECTED" THEN 403
    ELSE IF type = "applicant"
    THEN IF applications[application_id].applicant_id # user THEN 403 ELSE 200
    ELSE IF applications[application_id].status \notin can_view[admins[user].role]
    THEN 403
    ELSE 200

get_application(type, user, application_id) ==
    /\ user_req.pc = "idle"
    /\ type = "applicant" \/ user \in DOMAIN admins
    /\ LET code == GetApplicationCode(type, user, application_id)
       IN user_req' = [ IdleUserRequest EXCEPT
             !.pc = "done", !.handler = "get_application",
             !.type = type, !.user_id = user, !.id = application_id,
             !.code = code,
             !.can_edit =
                 IF code # 200 THEN FALSE
                 ELSE IF type = "applicant"
                 THEN ApplicantCanEdit(applications[application_id].status)
                 ELSE applications[application_id].status
                        \in can_edit[admins[user].role] ]
    /\ UNCHANGED << applications, admins, year, req, applicant_req,
                    application_comments, notifications, notification_id,
                    stages >>

\* ---------------------------------------------------------- specifications
\* Spec: the handlers run one at a time (one request is answered before the
\* next one starts).
Next ==
    \/ Quiet /\ NewYear
       /\ UNCHANGED tables
    \/ Quiet /\ Len(applications) < MaxApps
             /\ \E applicant \in Applicants : create_application(applicant)
       /\ UNCHANGED tables
    \/ Quiet /\ \E applicant \in Applicants, id \in RequestedIds :
                   update_application(applicant, id)
       /\ UNCHANGED tables
    \/ Quiet /\ \E applicant \in Applicants, id \in RequestedIds :
                   upload_document(applicant, id)
       /\ UNCHANGED tables
    \/ upload_document_commit
       /\ UNCHANGED tables
    \/ upload_document_fails
       /\ UNCHANGED tables
    \/ applicant_return
       /\ UNCHANGED tables
    \/ Quiet /\ \E id \in RequestedIds : generate_certificate(id)
       /\ UNCHANGED tables
    \/ Quiet /\ \E admin \in DOMAIN admins, id \in RequestedIds,
                   new_status \in StatusLiterals, comment \in Comments :
                   StatusBegin(1, admin, id, new_status, comment)
       /\ UNCHANGED tables
    \/ StatusCommit(1)
       /\ UNCHANGED tables
    \/ StatusCommitFails(1)
       /\ UNCHANGED tables
    \/ StatusNotify(1)
       /\ UNCHANGED tables
    \/ \E persisted \in BOOLEAN : StatusNotifyFails(1, persisted)
       /\ UNCHANGED tables
    \/ StatusReturn(1)
       /\ UNCHANGED tables

Spec == Init /\ [][Next]_vars

\* SpecRace: requests of several workers interleave at their database steps.
\* Each admin asks, with a comment, for a transition the table offers for the
\* status the application shows when the request arrives; the applicant
\* resubmits.
OfferedTransitions(admin, id) ==
    IF id \in ApplicationIds /\ admin \in DOMAIN admins
    THEN { t \in ApplicationStatus :
             ValidateTransition(admins[admin].role, applications[id].status, t) = "ok" }
    ELSE { }

NextRace ==
    \/ /\ Len(applications) < MaxApps
       /\ \E applicant \in Applicants : create_application(applicant)
       /\ UNCHANGED tables
    \/ \E applicant \in Applicants, id \in RequestedIds :
           update_application(applicant, id)
       /\ UNCHANGED tables
    \/ applicant_return
       /\ UNCHANGED tables
    \/ \E s \in Slots, admin \in DOMAIN admins, id \in RequestedIds :
           \E new_status \in OfferedTransitions(admin, id) :
              StatusBegin(s, admin, id, new_status, << "o", "k" >>)
       /\ UNCHANGED tables
    \/ \E s \in Slots : StatusCommit(s)
       /\ UNCHANGED tables
    \/ \E s \in Slots : StatusNotify(s)
       /\ UNCHANGED tables
    \/ \E s \in Slots : StatusReturn(s)
       /\ UNCHANGED tables

SpecRace == Init /\ [][NextRace]_vars

\* SpecIssue: several applications go through the workflow, one request at a
\* time, over a change of year; applicants upload documents at any stage.
NextIssue ==
    \/ Quiet /\ NewYear
       /\ UNCHANGED tables
    \/ Quiet /\ Len(applications) < MaxIssued
             /\ \E applicant \in Applicants : create_application(applicant)
       /\ UNCHANGED tables
    \/ Quiet /\ \E id \in ApplicationIds :
                   upload_document(applications[id].applicant_id, id)
       /\ UNCHANGED tables
    \/ upload_document_commit
       /\ UNCHANGED tables
    \/ applicant_return
       /\ UNCHANGED tables
    \/ Quiet /\ \E admin \in DOMAIN admins, id \in ApplicationIds :
                   \E new_status \in OfferedTransitions(admin, id) :
                      StatusBegin(1, admin, id, new_status, << >>)
       /\ UNCHANGED tables
    \/ StatusCommit(1)
       /\ UNCHANGED tables
    \/ StatusNotify(1)
       /\ UNCHANGED tables
    \/ StatusReturn(1)
       /\ UNCHANGED tables

SpecIssue == Init /\ [][NextIssue]_vars

\* SpecUsers: the CEO and the secretary general create, disable and enable
\* admin accounts while an admin's request for a transition the table offers
\* to that admin's role is under way.
NextUsers ==
    \/ /\ Len(applications) < MaxApps
       /\ \E applicant \in Applicants : create_application(applicant)
       /\ UNCHANGED tables
    \/ applicant_return
       /\ UNCHANGED tables
    \/ /\ Len(admins) < MaxAdmins
       /\ \E current \in DOMAIN admins, role \in AdminRole, enabled \in BOOLEAN :
              create_user(current, role, enabled)
       /\ UNCHANGED tables
    \/ \E current \in DOMAIN admins, user_id \in DOMAIN admins,
          enabled \in BOOLEAN : update_user(current, user_id, enabled)
       /\ UNCHANGED tables
    \/ \E admin \in DOMAIN admins, id \in ApplicationIds :
           \E new_status \in OfferedTransitions(admin, id) :
              StatusBegin(1, admin, id, new_status, << "o", "k" >>)
       /\ UNCHANGED tables
    \/ StatusCommit(1)
       /\ UNCHANGED tables
    \/ StatusNotify(1)
       /\ UNCHANGED tables
    \/ StatusReturn(1)
       /\ UNCHANGED tables

SpecUsers == Init /\ [][NextUsers]_vars

\* SpecClock: the clock advances while a request of an admin is under way and
\* the applicant resubmits.
NextClock ==
    \/ NewYear
       /\ UNCHANGED tables
    \/ /\ Len(applications) < MaxApps
       /\ \E applicant \in Applicants : create_application(applicant)
       /\ UNCHANGED tables
    \/ \E applicant \in Applicants, id \in RequestedIds :
           update_application(applicant, id)
       /\ UNCHANGED tables
    \/ applicant_return
       /\ UNCHANGED tables
    \/ \E admin \in DOMAIN admins, id \in ApplicationIds :
           \E new_status \in OfferedTransitions(admin, id) :
              StatusBegin(1, admin, id, new_status, << "o", "k" >>)
       /\ UNCHANGED tables
    \/ StatusCommit(1)
       /\ UNCHANGED tables
    \/ StatusNotify(1)
       /\ UNCHANGED tables
    \/ StatusReturn(1)
       /\ UNCHANGED tables

SpecClock == Init /\ [][NextClock]_vars

\* SpecAssign: admins assign the application to an admin between the
\* requests that move it through the workflow.
NextAssign ==
    \/ Quiet /\ user_req.pc = "idle" /\ Len(applications) < MaxApps
             /\ \E applicant \in Applicants : create_application(applicant)
             /\ UNCHANGED tables
    \/ applicant_return /\ UNCHANGED tables
    \/ Quiet /\ user_req.pc = "idle"
             /\ \E admin \in DOMAIN admins, id \in ApplicationIds :
                   \E new_status \in OfferedTransitions(admin, id) :
                      StatusBegin(1, admin, id, new_status, << >>)
             /\ UNCHANGED tables
    \/ StatusCommit(1) /\ UNCHANGED tables
    \/ StatusNotify(1) /\ UNCHANGED tables
    \/ StatusReturn(1) /\ UNCHANGED tables
    \/ Quiet /\ \E current \in DOMAIN admins, application_id \in RequestedIds,
                    admin_id \in 0 .. Len(admins) + 1 :
                   assign_application(current, application_id, admin_id)
    \/ user_return

SpecAssign == Init /\ [][NextAssign]_vars

\* SpecRoles: the admins change each other's roles, one request at a time.
NextRoles ==
    \/ \E current \in DOMAIN admins, user_id \in 1 .. Len(admins) + 1,
          role \in RoleLiterals : update_user_role(current, user_id, role)
    \/ user_return

SpecRoles == Init /\ [][NextRoles]_vars

\* SpecRead: admins and applicants read the applications between the
\* requests that move them through the workflow.
NextRead ==
    \/ Quiet /\ user_req.pc = "idle" /\ Len(applications) < MaxApps
             /\ \E applicant \in Applicants : create_application(applicant)
             /\ UNCHANGED tables
    \/ applicant_return /\ UNCHANGED tables
    \/ Quiet /\ user_req.pc = "idle"
             /\ \E admin \in DOMAIN admins, id \in ApplicationIds :
                   \E new_status \in OfferedTransitions(admin, id) :
                      StatusBegin(1, admin, id, new_status, << >>)
             /\ UNCHANGED tables
    \/ StatusCommit(1) /\ UNCHANGED tables
    \/ StatusNotify(1) /\ UNCHANGED tables
    \/ StatusReturn(1) /\ UNCHANGED tables
    \/ Quiet /\ \E type \in { "applicant", "admin" }, user \in 1 .. 6 :
                   get_applications(type, user)
    \/ Quiet /\ \E type \in { "applicant", "admin" }, user \in 1 .. 6,
                    application_id \in RequestedIds :
                   get_application(type, user, application_id)
    \/ user_return

SpecRead == Init /\ [][NextRead]_vars

\* SpecAudit: the audit trail is followed while a request for a transition
\* interleaves with the others: admins comment on the application, the
\* applicant resubmits, and the CEO deletes admin accounts.
MaxComments == 2    \* application_comments rows that are ever created
MaxDeleted == 1     \* admin rows that are ever deleted

NextAudit ==
    \/ /\ Len(applications) < MaxApps
       /\ user_req.pc = "idle"
       /\ \E applicant \in Applicants : create_application(applicant)
       /\ UNCHANGED tables
    \/ /\ Len(application_comments) < MaxComments
       /\ user_req.pc = "idle"
       /\ \E applicant \in Applicants, id \in ApplicationIds :
              /\ update_application(applicant, id)
              /\ application_comments' =
                    Append(application_comments, UpdateComment(applicant, id))
       /\ UNCHANGED << notifications, notification_id, user_req, stages >>
    \/ applicant_return /\ UNCHANGED tables
    \/ /\ \E admin \in DOMAIN admins, id \in ApplicationIds,
             comment \in { << >>, << "o", "k" >> } :
              \E new_status \in OfferedTransitions(admin, id) :
                 StatusBegin(1, admin, id, new_status, comment)
       /\ UNCHANGED tables
    \/ /\ Len(application_comments) + Len(CommittedComments(req[1]))
            <= MaxComments
       /\ StatusCommit(1)
       /\ application_comments' =
             application_comments \o CommittedComments(req[1])
       /\ UNCHANGED << notifications, notification_id, user_req, stages >>
    \/ StatusCommitFails(1) /\ UNCHANGED tables
    \/ StatusNotify(1) /\ UNCHANGED tables
    \/ StatusReturn(1) /\ UNCHANGED tables
    \/ /\ Len(application_comments) < MaxComments
       /\ applicant_req.pc = "idle"
       /\ \E current \in DOMAIN admins, application_id \in RequestedIds,
             content \in { << " " >>, << "o", "k" >> } :
              add_comment(current, application_id, content)
    \/ /\ Cardinality(DOMAIN admins) + MaxDeleted > 5
       /\ applicant_req.pc = "idle"
       /\ \E current \in DOMAIN admins, user_id \in 1 .. 6 :
              delete_user(current, user_id)
    \/ delete_user_commit
    \/ user_return

SpecAudit == Init /\ [][NextAudit]_vars

\* SpecNotify: the notifications are followed, one request at a time: the
\* workflow's handlers add them, admins send and broadcast them, their
\* recipients and other users mark them read and delete them, and the CEO
\* deletes admin accounts.
MaxNotifications == 3   \* notifications rows that are ever created

\* the users a token identifies
Users(type) == IF type = "applicant" THEN Applicants ELSE DOMAIN admins

\* the recipient keys a body of send_notification may carry
SendBodies ==
    [ applicant_id : { Absent, NoRow, 6 }, admin_id : { Absent, 5 },
      application_id : { Absent, 1 } ]

Serial == Quiet /\ user_req.pc = "idle"

NextNotify ==
    \/ /\ Serial
       /\ Len(applications) < MaxApps
       /\ notification_id + Cardinality(FboOfficers) <= MaxNotifications
       /\ \E applicant \in Applicants : create_application(applicant)
       /\ InsertNotifications(
             AdminNotifications(Ascending(FboOfficers), Len(applications) + 1))
       /\ UNCHANGED << application_comments, user_req, stages >>
    \/ applicant_return /\ UNCHANGED tables
    \/ /\ Serial
       /\ \E admin \in DOMAIN admins, id \in ApplicationIds :
              \E new_status \in OfferedTransitions(admin, id) :
                 StatusBegin(1, admin, id, new_status, << >>)
       /\ UNCHANGED tables
    \/ StatusCommit(1) /\ UNCHANGED tables
    \/ /\ notification_id + 1 + Cardinality(NextAdmins(req[1].new_status))
            <= MaxNotifications
       /\ StatusNotify(1)
       /\ InsertNotifications(StatusNotifications(req'[1]))
       /\ UNCHANGED << application_comments, user_req, stages >>
    \/ StatusReturn(1) /\ UNCHANGED tables
    \/ /\ Serial
       /\ notification_id < MaxNotifications
       /\ \E type \in { "applicant", "admin" }, data \in SendBodies :
              \E user \in Users(type) : send_notification(type, user, data)
    \/ /\ Serial
       /\ \E current \in DOMAIN admins,
             recipient_type \in { "all", "applicants", "admins" } :
              /\ notification_id
                   + Len(BroadcastNotifications(current, recipient_type))
                   <= MaxNotifications
              /\ broadcast_notification(current, recipient_type)
    \/ /\ Serial
       /\ \E type \in { "applicant", "admin" },
             id \in 1 .. MaxNotifications + 1 :
              \E user \in Users(type) : mark_notification_read(type, user, id)
    \/ /\ Serial
       /\ \E type \in { "applicant", "admin" } :
              \E user \in Users(type) : mark_all_notifications_read(type, user)
    \/ /\ Serial
       /\ \E type \in { "applicant", "admin" },
             id \in 1 .. MaxNotifications + 1 :
              \E user \in Users(type) : delete_notification(type, user, id)
    \/ /\ Serial
       /\ Cardinality(DOMAIN admins) + MaxDeleted > 5
       /\ \E current \in DOMAIN admins, user_id \in 1 .. 6 :
              delete_user(current, user_id)
    \/ delete_user_commit
    \/ user_return

SpecNotify == Init /\ [][NextNotify]_vars

\* SpecStages: SpecRace with generate_certificate, and with the status
\* history followed.
NextStages ==
    \/ /\ Len(applications) < MaxApps
       /\ \E applicant \in Applicants : create_application(applicant)
       /\ stages' = Recorded
       /\ UNCHANGED << application_comments, notifications, notification_id,
                       user_req >>
    \/ /\ \E applicant \in Applicants, id \in ApplicationIds :
              update_application(applicant, id)
       /\ stages' = Recorded
       /\ UNCHANGED << application_comments, notifications, notification_id,
                       user_req >>
    \/ applicant_return /\ UNCHANGED tables
    \/ /\ \E id \in ApplicationIds : generate_certificate(id)
       /\ stages' = Recorded
       /\ UNCHANGED << application_comments, notifications, notification_id,
                       user_req >>
    \/ /\ \E s \in Slots, admin \in DOMAIN admins, id \in ApplicationIds :
              \E new_status \in OfferedTransitions(admin, id) :
                 StatusBegin(s, admin, id, new_status, << >>)
       /\ UNCHANGED tables
    \/ /\ \E s \in Slots : StatusCommit(s)
       /\ stages' = Recorded
       /\ UNCHANGED << application_comments, notifications, notification_id,
                       user_req >>
    \/ (\E s \in Slots : StatusNotify(s)) /\ UNCHANGED tables
    \/ (\E s \in Slots : StatusReturn(s)) /\ UNCHANGED tables

SpecStages == Init /\ [][NextStages]_vars

\* ------------------------------------------------------------- properties
TerminalStatuses == { "REJECTED", "CERTIFICATE_ISSUED" }

\* request s has run update_application_status to its answer, and was refused
Refused(s) == req[s].pc = "done" /\ req[s].code # 200

\* request s makes its first commit in this step
Commits(s) == req[s].pc = "flush" /\ req'[s].pc = "notify"

\* C1: a request whose application no longer shows the status the request
\* observed when it was validated does not commit: it is answered 409 and the
\* status another request wrote stays.
C1_ConcurrentModificationRefused ==
    [][ \A s \in Slots :
          ( /\ req[s].pc = "flush"
            /\ req'[s].pc # "flush"
            /\ applications[req[s].application_id].status # req[s].old_status )
          => ( /\ req'[s].pc = "done"
               /\ req'[s].code = 409
               /\ applications' = applications ) ]_vars

\* C2: once the committed status of an application is REJECTED or
\* CERTIFICATE_ISSUED, no step changes it.
C2_TerminalStatusFinal ==
    [][ \A id \in ApplicationIds :
          applications[id].status \in TerminalStatuses
          => applications'[id].status = applications[id].status ]_vars

\* C3: in every committed state an application has a certificate number
\* exactly when its status is CERTIFICATE_ISSUED.
C3_CertificateIffIssued ==
    \A id \in ApplicationIds :
        (applications[id].certificate_number # Null)
            <=> (applications[id].status = "CERTIFICATE_ISSUED")

\* C4: every committed change of an application's status is the first commit
\* of an update_application_status request whose admin's role is allowed, by
\* the transition table, to move the application from the status it had to the
\* requested one (CERTIFICATE_ISSUED standing for a requested APPROVED).
C4_StatusChangedOnlyByWorkflow ==
    [][ \A id \in ApplicationIds :
          applications'[id].status # applications[id].status
          => \E s \in Slots :
               /\ Commits(s)
               /\ req[s].application_id = id
               /\ req[s].role \in DOMAIN valid_transitions
               /\ applications[id].status \in DOMAIN valid_transitions[req[s].role]
               /\ req[s].new_status
                      \in valid_transitions[req[s].role][applications[id].status]
               /\ applications'[id].status =
                      IF req[s].new_status = "APPROVED"
                      THEN "CERTIFICATE_ISSUED" ELSE req[s].new_status ]_vars

\* C5: for every role the transition check allows no target when the status
\* is REJECTED or CERTIFICATE_ISSUED, and every request that finds an
\* application in one of them is refused.
C5_TerminalAllowsNothing ==
    /\ \A id \in ApplicationIds :
           applications[id].status \in TerminalStatuses
           => \A role \in AdminRole, t \in StatusLiterals :
                  ValidateTransition(role, applications[id].status, t) # "ok"
    /\ \A s \in Slots :
           (req[s].pc # "idle" /\ req[s].old_status \in TerminalStatuses)
           => Refused(s)

C5_Witness ==
    \E s \in Slots :
        /\ Refused(s)
        /\ req[s].role = "CEO"
        /\ req[s].old_status = "CERTIFICATE_ISSUED"
        /\ req[s].new_status = "CEO_REVIEW"

\* C6: a request of an enabled admin for an existing application and a status
\* of the enumeration, whose role has no entry for the status the application
\* is in, is refused with "Cannot update application in ... status", whatever
\* the target; so is every request of a DIVISION_MANAGER for an application in
\* CEO_REVIEW.
C6_NoEntryDenied ==
    \A s \in Slots :
        ( /\ req[s].pc # "idle"
          /\ req[s].role \in AdminRole
          /\ req[s].old_status \in ApplicationStatus
          /\ req[s].new_status \in ApplicationStatus
          /\ \/ req[s].old_status \notin DOMAIN valid_transitions[req[s].role]
             \/ (req[s].role = "DIVISION_MANAGER" /\ req[s].old_status = "CEO_REVIEW") )
        => ( /\ Refused(s)
             /\ req[s].error = "Cannot update application in status"
             /\ applications[req[s].application_id].status = req[s].old_status )

C6_Witness ==
    \E s \in Slots :
        /\ Refused(s)
        /\ req[s].role = "DIVISION_MANAGER"
        /\ req[s].old_status = "CEO_REVIEW"
        /\ req[s].new_status = "REJECTED"
        /\ req[s].error = "Cannot update application in status"

\* C7: a request whose target is the status the application is in is refused,
\* for every role and status, and the application keeps that status.
C7_SameStatusDenied ==
    \A s \in Slots :
        ( /\ req[s].pc # "idle"
          /\ req[s].role \in AdminRole
          /\ req[s].old_status \in ApplicationStatus
          /\ req[s].new_status = req[s].old_status )
        => ( /\ Refused(s)
             /\ applications[req[s].application_id].status = req[s].old_status )

C7_Witness ==
    \E s \in Slots :
        /\ Refused(s)
        /\ req[s].role = "DIVISION_MANAGER"
        /\ req[s].old_status = "DM_REVIEW"
        /\ req[s].new_status = "DM_REVIEW"

\* the n low decimal digits of x, most significant first
LowDigits(x, n) == [ i \in 1 .. n |-> DigitChar((x \div 10 ^ (n - i)) % 10) ]

\* C8: a CEO's request for APPROVED on an application in CEO_REVIEW commits
\* the status CERTIFICATE_ISSUED, and its response carries the certificate
\* number RGB-<year>-<id in six digits>; the request is answered otherwise
\* only when a commit or the emit has raised.
C8_ApprovalIssuesCertificate ==
    \A s \in Slots :
        ( /\ req[s].pc # "idle"
          /\ req[s].role = "CEO"
          /\ req[s].old_status = "CEO_REVIEW"
          /\ req[s].new_status = "APPROVED" )
        => LET id == req[s].application_id
           IN /\ (req[s].pc = "notify" \/ (req[s].pc = "done" /\ req[s].code = 200))
                    => applications[id].status = "CERTIFICATE_ISSUED"
              /\ req[s].pc = "done"
                    => \/ req[s].error = "Failed to update application status"
                       \/ req[s].code = 200
              /\ (req[s].pc = "done" /\ req[s].code = 200)
                    => /\ req[s].error = "ok"
                       /\ req[s].body.status = "CERTIFICATE_ISSUED"
                       /\ req[s].body.certificate_number # Null
                       /\ req[s].body.certificate_number =
                              << "R", "G", "B", "-" >> \o LowDigits(year, 4)
                                  \o << "-" >> \o LowDigits(id, 6)

C8_Witness ==
    \E s \in Slots :
        /\ req[s].pc = "done"
        /\ req[s].new_status = "APPROVED"
        /\ req[s].code = 200
        /\ req[s].application_id = 1
        /\ req[s].body.certificate_number =
               << "R", "G", "B", "-", "2", "0", "2", "6", "-",
                  "0", "0", "0", "0", "0", "1" >>

\* C9: the response, the owner's notification and the status_update event of
\* an approving request all report CERTIFICATE_ISSUED.
C9_OnlyFinalStatusReported ==
    \A s \in Slots :
        (req[s].pc = "done" /\ req[s].code = 200 /\ req[s].new_status = "APPROVED")
        => ( /\ req[s].body.status = "CERTIFICATE_ISSUED"
             /\ req[s].notification = "CERTIFICATE_ISSUED"
             /\ req[s].event.new_status = "CERTIFICATE_ISSUED" )

\* C10: a certificate number, once an application has one, is never replaced
\* by a different one.
C10_CertificateNumberKept ==
    [][ \A id \in ApplicationIds :
          applications[id].certificate_number # Null
          => applications'[id].certificate_number
                 = applications[id].certificate_number ]_vars

\* C11: no two distinct applications hold the same certificate number, and
\* the number an approving request has formatted for its application is not
\* the number formatted for another application id, in the same year or in
\* another one.
C11_CertificateNumbersDistinct ==
    /\ \A id, other \in ApplicationIds :
           (id # other /\ applications[id].certificate_number # Null)
           => applications[id].certificate_number
                  # applications[other].certificate_number
    /\ \A s \in Slots :
           (req[s].pc \in { "flush", "notify" } /\ req[s].new_status = "APPROVED")
           => \A other \in ApplicationIds \ { req[s].application_id },
                 y \in BaseYear .. year :
                 /\ req[s].certificate_number
                        # applications[other].certificate_number
                 /\ req[s].certificate_number # CertificateNumber(y, other)

C11_Witness ==
    /\ Len(applications) = 2
    /\ applications[1].certificate_number # Null
    /\ applications[2].certificate_number # Null
    /\ applications[1].last_modified # applications[2].last_modified

\* C12: the first commit of every update_application_status request that
\* passes the checks inserts exactly one ApplicationComment row, whatever the
\* comment of the request is.
C12_OneAuditRecordPerTransition ==
    [][ \A s \in Slots : Commits(s) => Len(req'[s].comments) = 1 ]_vars

\* the role whose admins a transfer hands the application to
C13_NextRole(new_status) ==
    CASE new_status = "TRANSFER_TO_DM" -> "DIVISION_MANAGER"
      [] new_status = "TRANSFER_TO_HOD" -> "HOD"
      [] new_status = "TRANSFER_TO_SG" -> "SECRETARY_GENERAL"
      [] new_status = "TRANSFER_TO_CEO" -> "CEO"
      [] OTHER -> "none"

\* C13: the notifications a successful request creates go to the applicant
\* who owns the application and to nobody else among the applicants, and to
\* exactly the admins that are enabled and hold the role the target hands the
\* application to (none when the target is not a transfer).
C13_NotificationRecipients ==
    [][ \A s \in Slots :
          (req[s].pc = "notify" /\ req'[s].pc = "done" /\ req'[s].code = 200)
          => /\ req'[s].applicants
                  = { applications[req[s].application_id].applicant_id }
             /\ req'[s].next_admins
                  = { a \in DOMAIN admins :
                        /\ admins[a].enabled
                        /\ admins[a].role = C13_NextRole(req[s].new_status) } ]_vars

C13_Witness ==
    \E s \in Slots :
        /\ req[s].pc = "done"
        /\ req[s].code = 200
        /\ req[s].new_status = "TRANSFER_TO_DM"
        /\ req[s].applicants = { 6 }
        /\ Len(admins) = 6
        /\ admins[6].role = "DIVISION_MANAGER"
        /\ ~admins[4].enabled
        /\ req[s].next_admins = { 6 }

\* C14: no request commits a transition while its admin is disabled, and a
\* request that an admin sends while disabled is refused in its first step
\* and leaves the application table as it is.
C14_DisabledAdminNeverActs ==
    [][ \A s \in Slots :
          /\ Commits(s) => admins[req[s].admin_id].enabled
          /\ ( /\ req[s].pc = "idle"
               /\ req'[s].pc # "idle"
               /\ ~admins[req'[s].admin_id].enabled )
             => (Refused(s)' /\ applications' = applications) ]_vars

\* C15: the step in which a request leaves its first commit either writes
\* the status, the processor, last_modified, the comment the request carries
\* and, for an approval, the certificate number and its time, all in that one
\* step, or fails and writes none of them; the changes the request has made
\* to the row it loaded are in no committed state before that step.
C15_TransitionAtomic ==
    [][ \A s \in Slots :
          /\ (req[s].pc = "idle" /\ req'[s].pc = "flush")
             => applications' = applications
          /\ (req[s].pc = "flush" /\ req'[s].pc # "flush")
             => LET r == req[s]
                    row == applications'[r.application_id]
                IN \/ /\ req'[s].pc = "notify"
                      /\ row.status = IF r.new_status = "APPROVED"
                                      THEN "CERTIFICATE_ISSUED" ELSE r.new_status
                      /\ row.processed_by_id = r.admin_id
                      /\ row.last_modified = r.last_modified
                      /\ r.new_status = "APPROVED"
                            => /\ row.certificate_number = r.certificate_number
                               /\ row.certificate_number # Null
                               /\ row.certificate_issued_at = r.last_modified
                      /\ r.comment = << " ", "o", "k" >>
                            => /\ Len(req'[s].comments) = 1
                               /\ req'[s].comments[1].content = << "o", "k" >>
                               /\ req'[s].comments[1].performed_by_id = r.admin_id
                   \/ /\ req'[s].pc = "done"
                      /\ req'[s].code = 500
                      /\ req'[s].comments = << >>
                      /\ applications' = applications ]_vars

C15_Witness ==
    \E s \in Slots :
        /\ req[s].pc = "notify"
        /\ req[s].new_status = "APPROVED"
        /\ Len(req[s].comments) = 1
        /\ applications[req[s].application_id].status = "CERTIFICATE_ISSUED"
        /\ applications[req[s].application_id].processed_by_id = req[s].admin_id
        /\ applications[req[s].application_id].certificate_number # Null

\* C16: a request whose transition is committed is answered as a success,
\* and the transition stays committed, also when writing the notifications
\* or emitting the event fails.
C16_SideEffectFailureStillSuccess ==
    [][ \A s \in Slots :
          (req[s].pc = "notify" /\ req'[s].pc = "done")
          => /\ applications' = applications
             /\ req'[s].code = 200 ]_vars

\* C17: an event that a handler has emitted announces a write that is
\* committed: a status_update event belongs to a request whose commits have
\* succeeded, and new_application and application_updated belong to a
\* create_application, update_application or upload_document request whose
\* commit has succeeded.
C17_EventAfterCommit ==
    /\ \A s \in Slots :
           req[s].event # NoEvent => (req[s].pc = "done" /\ req[s].code = 200)
    /\ applicant_req.event # ""
           => (applicant_req.pc = "done" /\ applicant_req.code \in { 200, 201 })

\* the status in which each role reviews an application
C18_ReviewStatus ==
    [ FBO_OFFICER |-> "FBO_REVIEW", DIVISION_MANAGER |-> "DM_REVIEW",
      HOD |-> "HOD_REVIEW", SECRETARY_GENERAL |-> "SG_REVIEW",
      CEO |-> "CEO_REVIEW" ]

\* request s has passed admin_required and found its application
C18_Validated(s) ==
    /\ req[s].pc # "idle"
    /\ req[s].role \in AdminRole
    /\ req[s].old_status \in ApplicationStatus
    /\ req[s].error # "Admin not found or disabled"

\* request s has passed the transition check
C18_Passed(s) ==
    \/ req[s].pc \in { "flush", "notify" }
    \/ /\ req[s].pc = "done"
       /\ req[s].error \in { "ok", "Failed to update application status" }

\* C18 as stated: a request of any of the five roles to send an application
\* that is in the role's own review status to REVIEWING_AGAIN passes the
\* transition check, and a request for REJECTED passes it only for a
\* SECRETARY_GENERAL or a CEO.
C18_AnyReviewerSendsBack ==
    \A s \in Slots :
        C18_Validated(s)
        => /\ ( /\ req[s].old_status = C18_ReviewStatus[req[s].role]
                /\ req[s].new_status = "REVIEWING_AGAIN" )
              => C18_Passed(s)
           /\ (req[s].new_status = "REJECTED" /\ C18_Passed(s))
              => req[s].role \in { "SECRETARY_GENERAL", "CEO" }

\* C18 amended: a request to send an application that is in the role's own
\* review status to REVIEWING_AGAIN passes the transition check exactly when
\* the role is FBO_OFFICER, DIVISION_MANAGER or HOD; a request for REJECTED
\* passes it only for a SECRETARY_GENERAL or a CEO, and does pass it for them
\* from their own review status.
C18_SendBackAndReject ==
    \A s \in Slots :
        C18_Validated(s)
        => /\ ( /\ req[s].old_status = C18_ReviewStatus[req[s].role]
                /\ req[s].new_status = "REVIEWING_AGAIN" )
              => ( C18_Passed(s)
                   <=> req[s].role \in { "FBO_OFFICER", "DIVISION_MANAGER", "HOD" } )
           /\ (req[s].new_status = "REJECTED" /\ C18_Passed(s))
              => req[s].role \in { "SECRETARY_GENERAL", "CEO" }
           /\ ( /\ req[s].role \in { "SECRETARY_GENERAL", "CEO" }
                /\ req[s].old_status = C18_ReviewStatus[req[s].role]
                /\ req[s].new_status = "REJECTED" )
              => C18_Passed(s)

C18_Witness ==
    \E s \in Slots :
        /\ req[s].pc = "done"
        /\ req[s].code = 200
        /\ req[s].role = "HOD"
        /\ req[s].old_status = "HOD_REVIEW"
        /\ req[s].new_status = "REVIEWING_AGAIN"
        /\ applications[req[s].application_id].status = "REVIEWING_AGAIN"

\* request r names an unknown status literal or an unknown application, or
\* asks for a target the table does not give to its role and status
C19_Invalid(r) ==
    \/ r.new_status \notin ApplicationStatus
    \/ r.application_id \notin ApplicationIds
    \/ r.role \notin DOMAIN valid_transitions
    \/ r.old_status \notin DOMAIN valid_transitions[r.role]
    \/ r.new_status \notin valid_transitions[r.role][r.old_status]

\* C19: a request that names an unknown status literal or an unknown
\* application, or whose role is not given the target by the table, is
\* answered with an error in its first step; that step leaves every
\* application row as it is (status, processor, last_modified and certificate
\* fields) and the request has inserted no comment, addressed no notification
\* and emitted no event.
C19_DeniedRequestChangesNothing ==
    [][ \A s \in Slots :
          (req[s].pc = "idle" /\ req'[s].pc # "idle" /\ C19_Invalid(req'[s]))
          => /\ req'[s].pc = "done"
             /\ req'[s].code # 200
             /\ applications' = applications
             /\ req'[s].comments = << >>
             /\ req'[s].notification = ""
             /\ req'[s].applicants = { }
             /\ req'[s].next_admins = { }
             /\ req'[s].event = NoEvent ]_vars

C19_Witness ==
    \E s \in Slots :
        /\ req[s].pc = "done"
        /\ req[s].role = "HOD"
        /\ req[s].old_status = "HOD_REVIEW"
        /\ req[s].new_status = "REJECTED"
        /\ req[s].code = 400
        /\ req[s].comments = << >>
        /\ req[s].event = NoEvent
        /\ applications[req[s].application_id].status = "HOD_REVIEW"

\* the answers update_application_status gives to a request whose actor may
\* not make the transition: the role has no entry for the status of the
\* application, the target is not in the role's list, the actor is disabled
C20_AuthorizationDenials ==
    { "Admin not found or disabled", "No permission to update status",
      "Cannot update application in status", "Invalid status transition" }

\* C20: a request refused because its actor may not make the transition is
\* answered 403, and a request answered 400 is one without a status or with
\* a status literal outside the enumeration.
C20_DenialsAnswered403 ==
    \A s \in Slots :
        req[s].pc = "done"
        => /\ req[s].error \in C20_AuthorizationDenials => req[s].code = 403
           /\ req[s].code = 400
                 => req[s].error \in { "Application ID and status required",
                                       "Invalid status" }

\* C21: no step lowers the committed last_modified of an application.
C21_LastModifiedMonotonic ==
    [][ \A id \in ApplicationIds :
          applications'[id].last_modified >= applications[id].last_modified ]_vars

\* the roles the literal of assign_application gives for a status; a status
\* it does not name is assigned to any admin
C30_ValidFor(status, role) ==
    status \in DOMAIN valid_assignments => role \in valid_assignments[status]

\* C30: an assignment by a DIVISION_MANAGER, HOD, SECRETARY_GENERAL or CEO to
\* an existing admin whose role is valid for the application's status is
\* answered 200 and has set processed_by_id to that admin, with one
\* notification for that admin.
C30_AssignmentApplied ==
    ( /\ user_req.pc = "done"
      /\ user_req.handler = "assign_application"
      /\ admins[user_req.user_id].role \in { "DIVISION_MANAGER", "HOD",
                                             "SECRETARY_GENERAL", "CEO" }
      /\ user_req.id \in ApplicationIds
      /\ user_req.admin_id \in DOMAIN admins
      /\ C30_ValidFor(applications[user_req.id].status,
                      admins[user_req.admin_id].role) )
    => /\ user_req.code = 200
       /\ applications[user_req.id].processed_by_id = user_req.admin_id
       /\ \E n \in DOMAIN notifications :
              /\ notifications[n].admin_id = user_req.admin_id
              /\ notifications[n].application_id = user_req.id

\* the escalation order of the roles
C25_Rank(role) ==
    CASE role = "FBO_OFFICER" -> 1
      [] role = "DIVISION_MANAGER" -> 2
      [] role = "HOD" -> 3
      [] role = "SECRETARY_GENERAL" -> 4
      [] role = "CEO" -> 5

\* C25: a step that changes the role of an admin is the update_user of an
\* admin whose role is strictly higher than the role the target had.
C25_RoleChangedByHigherRank ==
    [][ \A a \in DOMAIN admins :
          admins'[a].role # admins[a].role
          => /\ user_req'.handler = "update_user"
             /\ user_req'.id = a
             /\ C25_Rank(admins[user_req'.user_id].role)
                  > C25_Rank(admins[a].role) ]_vars

\* C28: the canEdit an admin is shown for an application, by get_application
\* and by get_applications, is true exactly when update_application_status
\* offers the admin's role a transition out of the application's status.
C28_CanEditIffTransition ==
    ( user_req.pc = "done" /\ user_req.type = "admin" /\ user_req.code = 200 )
    => /\ user_req.handler = "get_application"
          => ( user_req.can_edit
               <=> OfferedTransitions(user_req.user_id, user_req.id) # { } )
       /\ user_req.handler = "get_applications"
          => \A a \in user_req.listed :
                a.canEdit <=> OfferedTransitions(user_req.user_id, a.id) # { }

\* C24: no step changes or removes a committed ApplicationComment, so the
\* number of comments of an application never decreases.
C24_AuditTrailAppendOnly ==
    [][ /\ Len(application_comments') >= Len(application_comments)
        /\ \A i \in DOMAIN application_comments :
              application_comments'[i] = application_comments[i] ]_vars

\* delete_user has been refused at its commit for an admin who has commented
C24_Witness ==
    /\ user_req.pc = "done"
    /\ user_req.handler = "delete_user"
    /\ user_req.code = 500
    /\ \E i \in DOMAIN application_comments :
           application_comments[i].performed_by_id = user_req.id

\* C26: a step that deletes an admin deletes one that no application names
\* as its processor and no comment names as its actor.
C26_ReferencedAdminNotDeleted ==
    [][ \A a \in DOMAIN admins :
          a \notin DOMAIN admins'
          => /\ \A id \in ApplicationIds :
                   applications[id].processed_by_id # a
             /\ \A i \in DOMAIN application_comments :
                   application_comments[i].performed_by_id # a ]_vars

\* every processed_by_id and performed_by_id refers to an existing admin
C26_ReferencesExist ==
    /\ \A id \in ApplicationIds :
           applications[id].processed_by_id \in DOMAIN admins \cup { NoAdmin }
    /\ \A i \in DOMAIN application_comments :
           application_comments[i].performed_by_id \in DOMAIN admins

\* C29: a comment a step inserts names in performed_by_id the admin whose
\* request (update_application_status or add_comment) inserts it.
C29_ActorIsRequestingAdmin ==
    [][ \A i \in DOMAIN application_comments' \ DOMAIN application_comments :
          \/ /\ Commits(1)
             /\ application_comments'[i].performed_by_id = req[1].admin_id
          \/ /\ user_req.pc = "idle"
             /\ user_req'.handler = "add_comment"
             /\ application_comments'[i].performed_by_id = user_req'.user_id
      ]_vars

\* C22: every notification names exactly one recipient, an applicant or an
\* admin.
C22_ExactlyOneRecipient ==
    \A n \in DOMAIN notifications :
       ( notifications[n].applicant_id # NoRow )
       <=> ( notifications[n].admin_id = NoRow )

\* the request of the step is one of a recipient on its own notification n
C23_ByRecipient(n) ==
    /\ user_req.pc = "idle"
    /\ user_req'.code = 200
    /\ \/ /\ user_req'.type = "applicant"
          /\ notifications[n].applicant_id = user_req'.user_id
       \/ /\ user_req'.type = "admin"
          /\ notifications[n].admin_id = user_req'.user_id
    /\ \/ /\ user_req'.handler = "mark_notification_read"
          /\ user_req'.id = n
          /\ n \in DOMAIN notifications'
          /\ notifications'[n] = [ notifications[n] EXCEPT !.is_read = TRUE ]
       \/ /\ user_req'.handler = "mark_all_notifications_read"
          /\ n \in DOMAIN notifications'
          /\ notifications'[n] = [ notifications[n] EXCEPT !.is_read = TRUE ]
       \/ /\ user_req'.handler = "delete_notification"
          /\ user_req'.id = n
          /\ n \notin DOMAIN notifications'

\* notification n is altered or removed by the step
C23_Touched(n) ==
    n \notin DOMAIN notifications' \/ notifications'[n] # notifications[n]

\* a request that is answered 403 leaves every notification as it is
C23_DeniedChangesNothing ==
    ( user_req.pc = "idle" /\ user_req'.pc = "done" /\ user_req'.code = 403 )
    => notifications' = notifications

\* C23 as stated: a notification is altered or removed only by a request of
\* its own recipient, and a request answered 403 changes nothing.
C23_OnlyRecipientTouches ==
    [][ /\ \A n \in DOMAIN notifications : C23_Touched(n) => C23_ByRecipient(n)
        /\ C23_DeniedChangesNothing ]_vars

\* C23, amended: a notification is altered or removed only by a request of
\* its own recipient or by the delete_user of the admin it is addressed to,
\* which removes it; a request answered 403 changes nothing.
C23_RecipientOrDeleteUser ==
    [][ /\ \A n \in DOMAIN notifications :
              C23_Touched(n)
              => \/ C23_ByRecipient(n)
                 \/ /\ user_req.handler = "delete_user"
                    /\ user_req.pc = "delete"
                    /\ notifications[n].admin_id = user_req.id
                    /\ n \notin DOMAIN notifications'
        /\ C23_DeniedChangesNothing ]_vars

\* a user who is not the recipient has been refused, and the admin a
\* notification was addressed to has been deleted with it
C23_Witness ==
    /\ user_req.pc = "done"
    /\ user_req.handler \in { "mark_notification_read", "delete_notification" }
    /\ user_req.code = 403
    /\ user_req.id \in DOMAIN notifications
    /\ ~notifications[user_req.id].is_read
    /\ \E n \in 1 .. notification_id : n \notin DOMAIN notifications
    /\ DOMAIN admins # 1 .. 5

====
